---- MODULE Spec2Model ----
(***************************************************************************)
(* Model of the validation helpers of src/firewall/functions.py:           *)
(* getPortID, getPortRange, portStr, check_port, checkIP, checkIP6,        *)
(* checkIPnMask, checkIP6nMask, check_address and checkInterface.          *)
(*                                                                         *)
(* Python strings are sequences of one-character strings.  Python values   *)
(* are records [t, v] tagged with their type, so that an int, a tuple,     *)
(* None, a str, a bool and a raised exception stay distinguishable.        *)
(***************************************************************************)
EXTENDS Integers, Sequences, FiniteSets, TLC

VARIABLES db, pc, fn, args, result

vars == <<db, pc, fn, args, result>>

----------------------------------------------------------------------------
(* Python values *)

PyInt(n) == [t |-> "int", v |-> n]
PyStr(s) == [t |-> "str", v |-> s]
PyTuple(s) == [t |-> "tuple", v |-> s]
PyBool(b) == [t |-> "bool", v |-> b]
PyNone == [t |-> "none", v |-> "None"]
PyRaise(e) == [t |-> "raise", v |-> e]
NoValue == [t |-> "void", v |-> "void"]

Same(x, y) == x.t = y.t /\ x.v = y.v

\* a local variable: F applied to the value of v, computed once
Bind(v, F(_)) == CHOOSE r \in {F(x) : x \in {v}} : TRUE

----------------------------------------------------------------------------
(* Bounds of the model *)

\* largest number of '-'-separated tokens of a generated port string
MaxParts == 3

\* largest number of characters put in front of the padding of an
\* interface name
MaxIfacePrefix == 2

----------------------------------------------------------------------------
(* Program constants *)

MaxPort == 65535
MaxIPv4Prefix == 32
MaxIPv6Prefix == 128
MaxIfaceLen == 16

----------------------------------------------------------------------------
(* str primitives *)

DigitChars == <<"0", "1", "2", "3", "4", "5", "6", "7", "8", "9">>
Digits == {DigitChars[i] : i \in 1..10}
HexDigits == Digits \cup {"a", "b", "c", "d", "e", "f", "A", "B", "C", "D", "E", "F"}
Whitespace == {" "}

DigitVal(c) == (CHOOSE i \in 1..10 : DigitChars[i] = c) - 1

SetMin(S) == CHOOSE x \in S : \A y \in S : x <= y
SetMax(S) == CHOOSE x \in S : \A y \in S : y <= x

\* str.strip()
Strip(s) ==
    LET keep == {i \in 1..Len(s) : s[i] \notin Whitespace}
    IN  IF keep = {} THEN <<>> ELSE SubSeq(s, SetMin(keep), SetMax(keep))

\* ch in s
Contains(s, ch) == \E i \in 1..Len(s) : s[i] = ch

\* s.index(ch), for a string that contains ch
IndexOf(s, ch) == SetMin({i \in 1..Len(s) : s[i] = ch})

\* s.split(sep)
RECURSIVE Split(_, _)
Split(s, sep) ==
    IF Contains(s, sep)
    THEN LET i == IndexOf(s, sep)
         IN  <<SubSeq(s, 1, i - 1)>> \o Split(SubSeq(s, i + 1, Len(s)), sep)
    ELSE <<s>>

\* sep.join(parts)
RECURSIVE Join(_, _)
Join(parts, sep) ==
    IF Len(parts) = 0 THEN <<>>
    ELSE IF Len(parts) = 1 THEN parts[1]
    ELSE parts[1] \o <<sep>> \o Join(Tail(parts), sep)

\* the digits of an int literal once blanks and sign are removed
IntBody(s) ==
    LET t == Strip(s)
    IN  IF t # <<>> /\ t[1] \in {"+", "-"} THEN Tail(t) ELSE t

\* int(s) does not raise ValueError
IsIntLiteral(s) ==
    LET b == IntBody(s)
    IN  b # <<>> /\ \A i \in 1..Len(b) : b[i] \in Digits

RECURSIVE DigitsValue(_)
DigitsValue(b) ==
    IF b = <<>> THEN 0
    ELSE 10 * DigitsValue(SubSeq(b, 1, Len(b) - 1)) + DigitVal(b[Len(b)])

\* int(s), for a string that is an int literal
IntValue(s) ==
    LET t == Strip(s)
    IN  IF t[1] = "-" THEN 0 - DigitsValue(IntBody(s)) ELSE DigitsValue(IntBody(s))

\* "%s" % n
RECURSIVE NatToStr(_)
NatToStr(n) ==
    IF n < 10 THEN <<DigitChars[n + 1]>>
    ELSE NatToStr(n \div 10) \o <<DigitChars[(n % 10) + 1]>>

IntToStr(n) == IF n < 0 THEN <<"-">> \o NatToStr(0 - n) ELSE NatToStr(n)

----------------------------------------------------------------------------
(* Port functions *)

\* socket.getservbyname(name): the id of a service of the database, or
\* an error when the database has no service of that name
getservbyname(name) ==
    IF name \in DOMAIN db THEN [found |-> TRUE, id |-> db[name]]
    ELSE [found |-> FALSE, id |-> -1]

\* the test of the id against the largest port
CheckedID(id) == IF id > MaxPort THEN -2 ELSE id

\* getPortID with the bound test off by one
getPortID_OffByOne(port) ==
    IF port.t = "int"
    THEN IF port.v >= MaxPort THEN -2 ELSE port.v
    ELSE Bind(IF port.v # <<>> THEN Strip(port.v) ELSE port.v, LAMBDA p :
             IF IsIntLiteral(p)
             THEN Bind(IntValue(p), LAMBDA id : IF id >= MaxPort THEN -2 ELSE id)
             ELSE Bind(getservbyname(p), LAMBDA serv :
                      IF serv.found
                      THEN IF serv.id >= MaxPort THEN -2 ELSE serv.id
                      ELSE -1))

getPortID(port) ==
    IF port.t = "int"
    THEN CheckedID(port.v)
    ELSE Bind(IF port.v # <<>> THEN Strip(port.v) ELSE port.v, LAMBDA p :
             IF IsIntLiteral(p)
             THEN Bind(IntValue(p), LAMBDA id : CheckedID(id))
             ELSE Bind(getservbyname(p), LAMBDA serv :
                      IF serv.found THEN CheckedID(serv.id) ELSE -1))

\* the turn of the loop without the break at a full match
MatchSplit_NoBreak(splits, i, matched) ==
    LET port2 == Join(SubSeq(splits, i + 1, Len(splits)), "-")
    IN  Bind(getPortID(PyStr(Join(SubSeq(splits, 1, i), "-"))), LAMBDA id1 :
            IF Len(port2) > 0
            THEN Bind(getPortID(PyStr(port2)), LAMBDA id2 :
                     IF id1 >= 0 /\ id2 >= 0
                     THEN IF id1 < id2
                          THEN [matched |-> Append(matched, <<id1, id2>>), brk |-> FALSE]
                          ELSE IF id1 > id2
                          THEN [matched |-> Append(matched, <<id2, id1>>), brk |-> FALSE]
                          ELSE [matched |-> Append(matched, <<id1>>), brk |-> FALSE]
                     ELSE [matched |-> matched, brk |-> FALSE])
            ELSE IF id1 >= 0
                 THEN [matched |-> Append(matched, <<id1>>), brk |-> FALSE]
                 ELSE [matched |-> matched, brk |-> FALSE])

\* the turn of the loop without the swap of a descending pair
MatchSplit_NoSwap(splits, i, matched) ==
    LET port2 == Join(SubSeq(splits, i + 1, Len(splits)), "-")
    IN  Bind(getPortID(PyStr(Join(SubSeq(splits, 1, i), "-"))), LAMBDA id1 :
            IF Len(port2) > 0
            THEN Bind(getPortID(PyStr(port2)), LAMBDA id2 :
                     IF id1 >= 0 /\ id2 >= 0
                     THEN IF id1 # id2
                          THEN [matched |-> Append(matched, <<id1, id2>>), brk |-> FALSE]
                          ELSE [matched |-> Append(matched, <<id1>>), brk |-> FALSE]
                     ELSE [matched |-> matched, brk |-> FALSE])
            ELSE IF id1 >= 0
                 THEN [matched |-> Append(matched, <<id1>>), brk |-> i = Len(splits)]
                 ELSE [matched |-> matched, brk |-> FALSE])

\* one turn of the loop of getPortRange over the split points: the list
\* of matches after the turn, and whether the loop breaks
MatchSplit(splits, i, matched) ==
    LET port2 == Join(SubSeq(splits, i + 1, Len(splits)), "-")
    IN  Bind(getPortID(PyStr(Join(SubSeq(splits, 1, i), "-"))), LAMBDA id1 :
            IF Len(port2) > 0
            THEN Bind(getPortID(PyStr(port2)), LAMBDA id2 :
                     IF id1 >= 0 /\ id2 >= 0
                     THEN IF id1 < id2
                          THEN [matched |-> Append(matched, <<id1, id2>>), brk |-> FALSE]
                          ELSE IF id1 > id2
                          THEN [matched |-> Append(matched, <<id2, id1>>), brk |-> FALSE]
                          ELSE [matched |-> Append(matched, <<id1>>), brk |-> FALSE]
                     ELSE [matched |-> matched, brk |-> FALSE])
            ELSE IF id1 >= 0
                 THEN [matched |-> Append(matched, <<id1>>), brk |-> i = Len(splits)]
                 ELSE [matched |-> matched, brk |-> FALSE])

\* the loop of getPortRange, one turn after the other
\* for i in range(len(splits), 0, -1)
RECURSIVE ScanSplits(_, _, _)
ScanSplits(splits, i, matched) ==
    IF i < 1 THEN matched
    ELSE Bind(MatchSplit(splits, i, matched), LAMBDA step :
             IF step.brk THEN step.matched
             ELSE ScanSplits(splits, i - 1, step.matched))

getPortRange(ports) ==
    IF ports.t = "int"
    THEN Bind(getPortID(ports), LAMBDA id :
             IF id >= 0 THEN PyTuple(<<id>>) ELSE PyInt(id))
    ELSE Bind(Split(ports.v, "-"), LAMBDA splits :
         Bind(ScanSplits(splits, Len(splits), <<>>), LAMBDA matched :
             IF Len(matched) < 1 THEN PyInt(-1)
             ELSE IF Len(matched) > 1 THEN PyNone
             ELSE PyTuple(matched[1])))

portStr(port, delimiter) ==
    IF port.t = "str" /\ port.v = <<>> THEN PyStr(<<>>)
    ELSE Bind(getPortRange(port), LAMBDA range :
             IF range.t = "int" /\ range.v < 0 THEN PyNone
             ELSE IF range.t # "tuple" THEN PyRaise("TypeError")
             ELSE IF Len(range.v) = 1 THEN PyStr(IntToStr(range.v[1]))
             ELSE PyStr(IntToStr(range.v[1]) \o delimiter \o IntToStr(range.v[2])))

check_port(port) ==
    Bind(getPortRange(port), LAMBDA range :
        IF range.t = "int" /\ range.v = -2 THEN PyBool(FALSE)
        ELSE IF range.t = "int" /\ range.v = -1 THEN PyBool(FALSE)
        ELSE IF range.t = "none" THEN PyBool(FALSE)
        ELSE IF range.t # "tuple" THEN PyRaise("TypeError")
        ELSE IF Len(range.v) = 2 /\ range.v[1] >= range.v[2] THEN PyBool(FALSE)
        ELSE PyBool(TRUE))

----------------------------------------------------------------------------
(* Address functions *)

\* one decimal byte of a dotted quad, as inet_pton(AF_INET) reads it
IsOctet(p) ==
    /\ Len(p) \in 1..3
    /\ \A i \in 1..Len(p) : p[i] \in Digits
    /\ (Len(p) > 1 => p[1] # "0")
    /\ DigitsValue(p) <= 255

\* socket.inet_pton(socket.AF_INET, ip) does not raise
checkIP(ip) ==
    LET parts == Split(ip, ".")
    IN  Len(parts) = 4 /\ \A i \in 1..4 : IsOctet(parts[i])

\* one 16-bit group of an IPv6 address
IsHexGroup(g) == Len(g) \in 1..4 /\ \A i \in 1..Len(g) : g[i] \in HexDigits

\* a possibly empty ':'-separated list of groups
HexGroups(s) == IF s = <<>> THEN <<>> ELSE Split(s, ":")

\* socket.inet_pton(socket.AF_INET6, ip) does not raise (addresses
\* without an embedded dotted quad)
checkIP6(ip) ==
    LET gaps == {i \in 1..(Len(ip) - 1) : ip[i] = ":" /\ ip[i + 1] = ":"}
    IN  IF gaps = {}
        THEN LET groups == Split(ip, ":")
             IN  Len(groups) = 8 /\ \A i \in 1..8 : IsHexGroup(groups[i])
        ELSE /\ Cardinality(gaps) = 1
             /\ LET g == SetMin(gaps)
                    left == HexGroups(SubSeq(ip, 1, g - 1))
                    right == HexGroups(SubSeq(ip, g + 2, Len(ip)))
                IN  /\ Len(left) + Len(right) <= 7
                    /\ \A i \in 1..Len(left) : IsHexGroup(left[i])
                    /\ \A i \in 1..Len(right) : IsHexGroup(right[i])

\* the address part of "addr/mask"
AddrPart(ip) ==
    IF Contains(ip, "/") THEN SubSeq(ip, 1, IndexOf(ip, "/") - 1) ELSE ip

\* the mask part of "addr/mask", None without a '/'
MaskPart(ip) ==
    IF Contains(ip, "/") THEN PyStr(SubSeq(ip, IndexOf(ip, "/") + 1, Len(ip)))
    ELSE PyNone

\* if mask:
Truthy(mask) == mask.t = "str" /\ mask.v # <<>>

checkIPnMask(ip) ==
    LET addr == AddrPart(ip)
        mask == MaskPart(ip)
    IN  IF ~checkIP(addr) THEN FALSE
        ELSE IF Truthy(mask)
        THEN IF Contains(mask.v, ".") /\ checkIP(addr) THEN FALSE
             ELSE IF ~IsIntLiteral(mask.v) THEN FALSE
             ELSE IF IntValue(mask.v) < 0 \/ IntValue(mask.v) > MaxIPv4Prefix THEN FALSE
             ELSE TRUE
        ELSE TRUE

checkIP6nMask(ip) ==
    LET addr == AddrPart(ip)
        mask == MaskPart(ip)
    IN  IF ~checkIP6(addr) THEN FALSE
        ELSE IF Truthy(mask)
        THEN IF ~IsIntLiteral(mask.v) THEN FALSE
             ELSE IF IntValue(mask.v) < 0 \/ IntValue(mask.v) > MaxIPv6Prefix THEN FALSE
             ELSE TRUE
        ELSE TRUE

IPV4 == <<"i", "p", "v", "4">>
IPV6 == <<"i", "p", "v", "6">>

check_address(ipv, source) ==
    IF ipv = IPV4 THEN checkIPnMask(source)
    ELSE IF ipv = IPV6 THEN checkIP6nMask(source)
    ELSE FALSE

----------------------------------------------------------------------------
(* Interface names *)

ForbiddenIfaceChars == <<" ", "/", "!", "*">>

\* checkInterface with the length test off by one
checkInterface_OffByOne(iface) ==
    IF iface = <<>> \/ Len(iface) > MaxIfaceLen + 1 THEN FALSE
    ELSE IF \E k \in 1..Len(ForbiddenIfaceChars) : Contains(iface, ForbiddenIfaceChars[k])
    THEN FALSE
    ELSE TRUE

checkInterface(iface) ==
    IF iface = <<>> \/ Len(iface) > MaxIfaceLen THEN FALSE
    ELSE IF \E k \in 1..Len(ForbiddenIfaceChars) : Contains(iface, ForbiddenIfaceChars[k])
    THEN FALSE
    ELSE TRUE

----------------------------------------------------------------------------
(* Inputs of the calls *)

\* the service databases: every choice among four services, two of them
\* with a '-' in their name, with ids that are equal for some pairs and
\* ordered either way for others
ServiceNames == {<<"a">>,
     <<"c">>,
     <<"a", "-", "c">>,
     <<"c", "-", "a">>}
ServiceIds == (<<"a">> :> 80) @@ (<<"c">> :> 90) @@ (<<"a", "-", "c">> :> 90) @@ (<<"c", "-", "a">> :> 80)
Databases == {[n \in N |-> ServiceIds[n]] : N \in SUBSET ServiceNames}

\* tokens that port strings are joined from with '-'
PortTokens == {<<>>,
     <<"8", "0">>,
     <<"9", "0", " ">>,
     <<"6", "5", "5", "3", "6">>,
     <<"a">>,
     <<"c">>}
TokenStrings ==
    {Join(parts, "-") : parts \in UNION {[1..n -> PortTokens] : n \in 1..MaxParts}}

\* port ids written as "a-b"
PortSample == {0, 1, 80, 65534, 65535}
RangeStrings == {IntToStr(a) \o <<"-">> \o IntToStr(b) : a, b \in PortSample}

IntSample == {-5, -2, -1, 0, 1, 80, 65534, 65535, 65536, 70000}
DecimalStrings == {IntToStr(n) : n \in IntSample}

PortStrings == TokenStrings \cup RangeStrings \cup DecimalStrings
PortInputs == {PyInt(n) : n \in IntSample} \cup {PyStr(s) : s \in PortStrings}

\* single ports: ids, decimal strings and service names
SinglePortInputs ==
    {PyInt(n) : n \in IntSample} \cup {PyStr(s) : s \in DecimalStrings \cup ServiceNames}

Delimiters == {<<":">>, <<"-">>}

IpvSample == {IPV4, IPV6, <<"e", "b">>}
AddrSample == {<<"1", ".", "2", ".", "3", ".", "4">>,
     <<"1", "9", "2", ".", "1", "6", "8", ".", "1", ".", "0">>,
     <<"2", "5", "6", ".", "1", ".", "1", ".", "1">>,
     <<"1", ".", "2", ".", "3">>,
     <<"0", "1", ".", "2", ".", "3", ".", "4">>,
     <<>>,
     <<":", ":", "1">>,
     <<":", ":">>,
     <<"1", ":", ":", "2", ":", ":", "3">>,
     <<"1", ":", "2", ":", "3", ":", "4", ":", "5", ":", "6", ":", "7", ":", "8">>,
     <<"g", ":", ":", "1">>,
     <<"1", ":", "2">>}
MaskSample == {<<>>,
     <<"/">>,
     <<"/", "0">>,
     <<"/", "2", "4">>,
     <<"/", "3", "2">>,
     <<"/", "3", "3">>,
     <<"/", "1", "2", "8">>,
     <<"/", "1", "2", "9">>,
     <<"/", "2", "5", "5", ".", "2", "5", "5", ".", "2", "5", "5", ".", "0">>,
     <<"/", "x">>,
     <<"/", "-", "1">>,
     <<"/", "2", "4", "/", "1">>,
     <<"/", " ", "2", "4">>}
AddressStrings == {a \o m : a \in AddrSample, m \in MaskSample}

IfaceChars == {"e", ":", " ", "/", "!", "*"}
IfacePrefixes == UNION {[1..n -> IfaceChars] : n \in 0..MaxIfacePrefix}
PadLens == {0} \cup ((MaxIfaceLen - MaxIfacePrefix - 1)..(MaxIfaceLen + 1))
Pad(k) == [i \in 1..k |-> "x"]
IfaceNames == {p \o Pad(k) : p \in IfacePrefixes, k \in PadLens}

----------------------------------------------------------------------------
(* The calls *)

Init ==
    /\ db \in Databases
    /\ pc = "idle"
    /\ fn = "none"
    /\ args = <<>>
    /\ result = NoValue

Called(f, a, r) ==
    /\ pc' = "done"
    /\ fn' = f
    /\ args' = a
    /\ result' = r
    /\ UNCHANGED db

CallGetPortID ==
    /\ pc = "idle"
    /\ \E p \in PortInputs :
           Called("getPortID", <<p>>, PyInt(getPortID(p)))

CallGetPortRange ==
    /\ pc = "idle"
    /\ \E p \in PortInputs :
           Called("getPortRange", <<p>>, getPortRange(p))

CallPortStr ==
    /\ pc = "idle"
    /\ \E p \in PortInputs, d \in Delimiters :
            Called("portStr", <<p, PyStr(d)>>, portStr(p, d))

CallCheckPort ==
    /\ pc = "idle"
    /\ \E p \in PortInputs :
           Called("check_port", <<p>>, check_port(p))

CallCheckAddress ==
    /\ pc = "idle"
    /\ \E ipv \in IpvSample, source \in AddressStrings :
            Called("check_address", <<PyStr(ipv), PyStr(source)>>,
                   PyBool(check_address(ipv, source)))

CallCheckInterface ==
    /\ pc = "idle"
    /\ \E iface \in IfaceNames :
            Called("checkInterface", <<PyStr(iface)>>, PyBool(checkInterface(iface)))

\* a port compiled to its id by getPortID and formatted back by portStr
CallRoundTrip ==
    /\ pc = "idle"
    /\ \E p \in SinglePortInputs, d \in Delimiters :
            Called("roundtrip", <<p, PyStr(d)>>, portStr(PyInt(getPortID(p)), d))

\* the caller takes the result; the next call can start
Return ==
    /\ pc = "done"
    /\ pc' = "idle"
    /\ fn' = "none"
    /\ args' = <<>>
    /\ result' = NoValue
    /\ UNCHANGED db

Next ==
    \/ CallGetPortID
    \/ CallGetPortRange
    \/ CallPortStr
    \/ CallCheckPort
    \/ CallCheckAddress
    \/ CallCheckInterface
    \/ CallRoundTrip
    \/ Return

Spec == Init /\ [][Next]_vars

----------------------------------------------------------------------------
(* Properties *)

Done(f) == pc = "done" /\ fn = f

\* the input of the call is a string
StrArg == args[1].t = "str"

\* s resolves as one port: a number or a service name
Resolves(s) == getPortID(PyStr(s)) >= 0

Hyphens(s) == {p \in 1..Len(s) : s[p] = "-"}
LeftOf(s, p) == SubSeq(s, 1, p - 1)
RightOf(s, p) == SubSeq(s, p + 1, Len(s))

\* the split of s at the hyphen p resolves to two ports
SplitResolves(s, p) == Resolves(LeftOf(s, p)) /\ Resolves(RightOf(s, p))

\* the split of s at the hyphen p is counted by the scan: the left part
\* resolves and the right part resolves or is empty
SplitCounted(s, p) ==
    Resolves(LeftOf(s, p)) /\ (RightOf(s, p) = <<>> \/ Resolves(RightOf(s, p)))

\* the tuple the scan records for a counted split
SplitTuple(s, p) ==
    LET id1 == getPortID(PyStr(LeftOf(s, p)))
        id2 == getPortID(PyStr(RightOf(s, p)))
    IN  IF RightOf(s, p) = <<>> \/ id1 = id2 THEN <<id1>>
        ELSE IF id1 < id2 THEN <<id1, id2>>
        ELSE <<id2, id1>>

\* the call is getPortRange(S) for a string S with a '-'
HyphenRangeCall == Done("getPortRange") /\ StrArg /\ Hyphens(args[1].v) # {}

C2_Original ==
    Done("getPortID") =>
        LET port == args[1]
            numeric == port.t = "int" \/ IsIntLiteral(port.v)
            value == IF port.t = "int" THEN port.v ELSE IntValue(port.v)
        IN  /\ result.v \in (0..MaxPort) \cup {-1, -2}
            /\ result.v = -2 => (numeric /\ value > MaxPort)
            /\ result.v = -1 => (~numeric /\ Strip(port.v) \notin DOMAIN db)

\* "a-b" for two port ids of the sample
RangeOf(a, b) == PyStr(IntToStr(a) \o <<"-">> \o IntToStr(b))

\* C3: for port ids a, b in 0..65535, getPortRange("a-b") is (a, b) when
\* a < b, (a,) when a = b and (b, a) when a > b (service names hold a
\* letter, so "a-b" is no service name).
C3_RangeCanonical ==
    Done("getPortRange") =>
        \A a, b \in PortSample :
            Same(args[1], RangeOf(a, b)) =>
                IF a < b THEN Same(result, PyTuple(<<a, b>>))
                ELSE IF a = b THEN Same(result, PyTuple(<<a>>))
                ELSE Same(result, PyTuple(<<b, a>>))

\* a descending range answered with the ascending pair
C3_Witness ==
    /\ Done("getPortRange")
    /\ Same(args[1], RangeOf(MaxPort, 80))
    /\ Same(result, PyTuple(<<80, MaxPort>>))

\* the mask of "addr/mask" is an integer prefix length of at most max
PrefixOk(source, max) ==
    Contains(source, "/") =>
        LET mask == RightOf(source, IndexOf(source, "/"))
        IN  IsIntLiteral(mask) /\ IntValue(mask) \in 0..max

\* C4 as stated: check_address is True exactly for ipv4 with a valid
\* IPv4 address, optionally followed by '/' and a prefix length in 0..32,
\* and for ipv6 with a valid IPv6 address, optionally followed by '/' and
\* a prefix length in 0..128; a '/' followed by nothing is rejected.
C4_Original ==
    Done("check_address") =>
        LET ipv == args[1].v
            source == args[2].v
        IN  result.v =
                \/ ipv = IPV4 /\ checkIP(AddrPart(source)) /\ PrefixOk(source, MaxIPv4Prefix)
                \/ ipv = IPV6 /\ checkIP6(AddrPart(source)) /\ PrefixOk(source, MaxIPv6Prefix)

\* the input is a valid port: an id in 0..65535 or its decimal string
ValidPortArg ==
    \/ args[1].t = "int" /\ args[1].v \in 0..MaxPort
    \/ /\ args[1].t = "str"
       /\ \E n \in PortSample \cup IntSample : n \in 0..MaxPort /\ args[1].v = IntToStr(n)

\* C5: for a valid port p, as an integer or as its decimal string,
\* portStr(getPortID(p)) is the decimal string of p, with no delimiter,
\* for every delimiter.
C5_RoundTrip ==
    (Done("roundtrip") /\ ValidPortArg) =>
        IF args[1].t = "int" THEN Same(result, PyStr(IntToStr(args[1].v)))
        ELSE Same(result, PyStr(args[1].v))

\* the largest port, round-tripped
C5_Witness ==
    /\ Done("roundtrip")
    /\ Same(args[1], PyStr(IntToStr(MaxPort)))
    /\ Same(result, PyStr(IntToStr(MaxPort)))

C7_Original ==
    Done("portStr") =>
        /\ result.t # "raise"
        /\ (~Same(args[1], PyStr(<<>>)) /\ getPortRange(args[1]).t # "tuple")
               => result.t = "none"

\* C8 as stated: check_port is False for every range "a-b" of valid
\* ports with a >= b.
C8_Original ==
    Done("check_port") =>
        \A a, b \in PortSample :
            (a >= b /\ Same(args[1], RangeOf(a, b))) => Same(result, PyBool(FALSE))

\* s is one port token, or two non-empty port tokens around a '-'
WellFormed(s) ==
    \/ Resolves(s)
    \/ \E p \in Hyphens(s) :
           LeftOf(s, p) # <<>> /\ RightOf(s, p) # <<>> /\ SplitResolves(s, p)

\* C9 as stated: getPortRange returns a tuple only for a well-formed
\* string; a string with an empty side of the hyphen, such as "80-" or
\* "-80", is rejected with -1.
C9_Original ==
    (Done("getPortRange") /\ StrArg) =>
        (~WellFormed(args[1].v) => Same(result, PyInt(-1)))

\* C10 as stated: a tuple returned by getPortRange has one or two
\* elements in 0..65535, two of them strictly increasing; every other
\* result is -1, -2 or None.
C10_Original ==
    Done("getPortRange") =>
        IF result.t = "tuple"
        THEN /\ Len(result.v) \in {1, 2}
             /\ \A i \in 1..Len(result.v) : result.v[i] \in 0..MaxPort
             /\ Len(result.v) = 2 => result.v[1] < result.v[2]
        ELSE \/ result.t = "none"
             \/ result.t = "int" /\ result.v \in {-1, -2}

====
